---- MODULE Spec2Model ----
(***************************************************************************)
(* Model of the atmospheric-sensor driver (src/src/lib.rs, src/src/i2c.rs, *)
(* src/src/calibration.rs): the register decoders, the fixed-point         *)
(* compensation engine and the sensor facade.                              *)
(*                                                                         *)
(* TLC's integers are 32-bit and raise an error on overflow, while the     *)
(* driver computes in i32 and i64 and lets products exceed both.  Machine  *)
(* integers are therefore modelled as exact integers of arbitrary size     *)
(* (sign and magnitude, the magnitude a little-endian sequence of 15-bit   *)
(* limbs), and every Rust operator is the exact operation followed by the  *)
(* reduction to the operand type's width.                                  *)
(***************************************************************************)
EXTENDS Integers, Sequences, FiniteSets, TLC

VARIABLES
    overflow_checks,  \* build profile: TRUE = arithmetic overflow panics (debug)
    pc,               \* position of the program
    regs,             \* device register file: register name -> byte
    calibration,      \* AtmosphericSensor.calibration
    t_fine,           \* AtmosphericSensor.t_fine
    t_src,            \* history: what produced the current t_fine
    call,             \* the last operation and its inputs
    ret,              \* the outcome of the last operation
    bus               \* the bus transactions the last operation issued

vars == <<overflow_checks, pc, regs, calibration, t_fine, t_src, call, ret, bus>>

(***************************************************************************)
(* Exact integers.                                                         *)
(***************************************************************************)
LimbBase == 2^15

Max(a, b) == IF a >= b THEN a ELSE b

Limb(m, i) == IF i <= Len(m) THEN m[i] ELSE 0

RECURSIVE MNorm(_)
MNorm(m) ==
    IF m = <<>> THEN <<>>
    ELSE IF m[Len(m)] = 0 THEN MNorm(SubSeq(m, 1, Len(m) - 1)) ELSE m

RECURSIVE MAddFrom(_, _, _, _)
MAddFrom(a, b, i, c) ==
    IF i > Len(a) /\ i > Len(b)
    THEN (IF c = 0 THEN <<>> ELSE <<c>>)
    ELSE LET t == Limb(a, i) + Limb(b, i) + c
         IN  <<t % LimbBase>> \o MAddFrom(a, b, i + 1, t \div LimbBase)

MAdd(a, b) == MAddFrom(a, b, 1, 0)

RECURSIVE MSubFrom(_, _, _, _)
MSubFrom(a, b, i, bw) ==
    IF i > Len(a) THEN <<>>
    ELSE LET t == a[i] - Limb(b, i) - bw
         IN  IF t < 0 THEN <<t + LimbBase>> \o MSubFrom(a, b, i + 1, 1)
                      ELSE <<t>> \o MSubFrom(a, b, i + 1, 0)

\* a - b for a >= b
MSub(a, b) == MNorm(MSubFrom(a, b, 1, 0))

RECURSIVE MCmpFrom(_, _, _)
MCmpFrom(a, b, i) ==
    IF i = 0 THEN 0
    ELSE IF a[i] < b[i] THEN -1
    ELSE IF a[i] > b[i] THEN 1
    ELSE MCmpFrom(a, b, i - 1)

MCmp(a, b) ==
    IF Len(a) < Len(b) THEN -1
    ELSE IF Len(a) > Len(b) THEN 1
    ELSE MCmpFrom(a, b, Len(a))

RECURSIVE MMulLimbFrom(_, _, _, _)
MMulLimbFrom(a, d, i, c) ==
    IF i > Len(a)
    THEN (IF c = 0 THEN <<>> ELSE <<c>>)
    ELSE LET t == a[i] * d + c
         IN  <<t % LimbBase>> \o MMulLimbFrom(a, d, i + 1, t \div LimbBase)

MMulLimb(a, d) == IF d = 0 THEN <<>> ELSE MMulLimbFrom(a, d, 1, 0)

MTimesBase(m) == IF m = <<>> THEN <<>> ELSE <<0>> \o m

RECURSIVE MMulFrom(_, _, _)
MMulFrom(a, b, j) ==
    IF j > Len(b) THEN <<>>
    ELSE MAdd(MMulLimb(a, b[j]), MTimesBase(MMulFrom(a, b, j + 1)))

MMul(a, b) == MMulFrom(a, b, 1)

RECURSIVE MZeros(_)
MZeros(n) == IF n = 0 THEN <<>> ELSE <<0>> \o MZeros(n - 1)

\* m * 2^k
MShl(m, k) ==
    IF m = <<>> THEN <<>>
    ELSE MZeros(k \div 15) \o MMulLimb(m, 2^(k % 15))

\* floor(m / 2^k)
MShr(m, k) ==
    LET q == k \div 15
        r == k % 15
        d == IF q >= Len(m) THEN <<>> ELSE SubSeq(m, q + 1, Len(m))
    IN  MNorm([i \in 1..Len(d) |->
                 (d[i] \div 2^r) + (Limb(d, i + 1) % 2^r) * 2^(15 - r)])

\* the largest d in 0 .. LimbBase - 1 with b * d <= r, found bit by bit from bit j
RECURSIVE MQuotLimb(_, _, _, _)
MQuotLimb(r, b, j, d) ==
    IF j < 0 THEN d
    ELSE IF MCmp(MMulLimb(b, d + 2^j), r) <= 0
         THEN MQuotLimb(r, b, j - 1, d + 2^j)
         ELSE MQuotLimb(r, b, j - 1, d)

\* <<quotient, remainder>> of a by b # 0: long division from limb i of a down,
\* q the quotient limbs found so far and r the running remainder (r < b)
RECURSIVE MDivFrom(_, _, _, _, _)
MDivStep(a, b, i, q, r2, d) ==
    MDivFrom(a, b, i - 1, <<d>> \o q, MSub(r2, MMulLimb(b, d)))

MDivLimb(a, b, i, q, r2) == MDivStep(a, b, i, q, r2, MQuotLimb(r2, b, 14, 0))

MDivFrom(a, b, i, q, r) ==
    IF i = 0 THEN <<MNorm(q), r>>
    ELSE MDivLimb(a, b, i, q, MNorm(<<a[i]>> \o r))

MDiv(a, b) == MDivFrom(a, b, Len(a), <<>>, <<>>)[1]

RECURSIVE MFromNat(_)
MFromNat(n) == IF n = 0 THEN <<>> ELSE <<n % LimbBase>> \o MFromNat(n \div LimbBase)

\* signed integers: s is the sign (1 or -1), m the magnitude; zero has sign 1
MkZ(s, m) == [s |-> IF m = <<>> THEN 1 ELSE s, m |-> m]

Z(n) == IF n < 0 THEN MkZ(-1, MFromNat(-n)) ELSE MkZ(1, MFromNat(n))

ZNeg(x) == MkZ(-x.s, x.m)

ZAdd(x, y) ==
    IF x.s = y.s THEN MkZ(x.s, MAdd(x.m, y.m))
    ELSE IF MCmp(x.m, y.m) >= 0 THEN MkZ(x.s, MSub(x.m, y.m))
    ELSE MkZ(y.s, MSub(y.m, x.m))

ZSub(x, y) == ZAdd(x, ZNeg(y))

ZMul(x, y) == MkZ(x.s * y.s, MMul(x.m, y.m))

\* x / y rounded toward zero, y # 0
ZDivT(x, y) == MkZ(x.s * y.s, MDiv(x.m, y.m))

ZCmp(x, y) ==
    IF x.s # y.s THEN x.s
    ELSE x.s * MCmp(x.m, y.m)

ZLt(x, y) == ZCmp(x, y) < 0
ZLe(x, y) == ZCmp(x, y) <= 0

\* the magnitude 2^k
MPow2(k) == MZeros(k \div 15) \o <<2^(k % 15)>>

\* m mod 2^k: the low k bits
MLow(m, k) ==
    MNorm([i \in 1..(IF Len(m) <= k \div 15 THEN Len(m) ELSE (k \div 15) + 1) |->
             IF i <= k \div 15 THEN m[i] ELSE m[i] % 2^(k % 15)])

\* x * 2^k
ZShl(x, k) == MkZ(x.s, MShl(x.m, k))

\* floor(x / 2^k): the arithmetic right shift
ZShr(x, k) ==
    IF x.s = 1 THEN MkZ(1, MShr(x.m, k))
    ELSE MkZ(-1, MAdd(MShr(MSub(x.m, <<1>>), k), <<1>>))

\* the value in 0 .. 2^w - 1 congruent modulo 2^w to one of sign s whose
\* magnitude has the low w bits low
ZResidue(s, low, w) ==
    IF s = 1 \/ low = <<>> THEN MkZ(1, low) ELSE MkZ(1, MSub(MPow2(w), low))

\* x mod 2^w, in 0 .. 2^w - 1
ZMod2(x, w) == ZResidue(x.s, MLow(x.m, w), w)

\* r in 0 .. 2^w - 1 read as two's complement of w bits
ZSigned(r, w) ==
    IF MCmp(r.m, MPow2(w - 1)) < 0 THEN r ELSE MkZ(-1, MSub(MPow2(w), r.m))

\* x reduced modulo 2^w into -2^(w-1) .. 2^(w-1) - 1 (two's complement)
WrapS(x, w) == ZSigned(ZMod2(x, w), w)

\* -2^(w-1) <= x < 2^(w-1)
FitsS(x, w) == MCmp(x.m, MPow2(w - 1)) < (IF x.s = 1 THEN 0 ELSE 1)

(***************************************************************************)
(* Rust's machine integers.  A value of the program is a record: v is the  *)
(* value (reduced to its type's width), o says that some i32/i64 `+`, `-`  *)
(* or `*` on the way to it left the type's range, p says that an operation *)
(* that panics in every build (a division by zero or of MIN by -1) was     *)
(* executed.  An overflowing `+ - *` panics when the build checks overflow *)
(* (debug) and wraps when it does not (release); `<<` and `>>` by less     *)
(* than the width never panic and `<<` drops the bits shifted out.         *)
(***************************************************************************)
Val(z) == [p |-> FALSE, o |-> FALSE, v |-> z]

Lit(n) == Val(Z(n))

Arith(w, e, a, b) ==
    [p |-> a.p \/ b.p, o |-> a.o \/ b.o \/ ~FitsS(e, w), v |-> WrapS(e, w)]

Add(w, a, b) == Arith(w, ZAdd(a.v, b.v), a, b)

Sub(w, a, b) == Arith(w, ZSub(a.v, b.v), a, b)

Mul(w, a, b) == Arith(w, ZMul(a.v, b.v), a, b)

Shl(w, a, k) == [p |-> a.p, o |-> a.o, v |-> WrapS(ZShl(a.v, k), w)]

Shr(a, k) == [p |-> a.p, o |-> a.o, v |-> ZShr(a.v, k)]

\* a / b with e the exact quotient rounded toward zero
Quotient(w, e, a, b) ==
    [p |-> a.p \/ b.p \/ ~FitsS(e, w), o |-> a.o \/ b.o, v |-> WrapS(e, w)]

Div(w, a, b) ==
    IF b.v = Z(0) THEN [p |-> TRUE, o |-> a.o \/ b.o, v |-> Z(0)]
    ELSE Quotient(w, ZDivT(a.v, b.v), a, b)

\* `x as u32` of an i64 or i32: the low 32 bits
AsU32(a) == [p |-> a.p, o |-> a.o, v |-> ZMod2(a.v, 32)]

\* whether the evaluation of x panics in the build at hand
Panics(x) == x.p \/ (overflow_checks /\ x.o)

(***************************************************************************)
(* The compensation engine (src/src/calibration.rs).  Coefficients are     *)
(* TLC integers (they fit 16 bits); samples and t_fine are program values. *)
(***************************************************************************)
temperature_var1(self, adc_t) ==
    Shr(Mul(32, Sub(32, Shr(adc_t, 3), Shl(32, Lit(self.t1), 1)), Lit(self.t2)), 11)

\* faulty variant of temperature_var2: the square shifted by 11, not 12
temperature_var2_shr11(self, d) ==
    Shr(Mul(32, Shr(Mul(32, d, d), 11), Lit(self.t3)), 14)

\* d is (adc_t >> 4) - T1, which the code writes out twice
temperature_var2(self, d) ==
    Shr(Mul(32, Shr(Mul(32, d, d), 12), Lit(self.t3)), 14)

compensate_temperature(self, adc_t) ==
    Add(32, temperature_var1(self, adc_t),
            temperature_var2(self, Sub(32, Shr(adc_t, 4), Lit(self.t1))))

\* var2 of lines 95-97, from var1 = t_fine - 128000
pressure_var2(self, var1) ==
    Add(64, Add(64, Mul(64, Mul(64, var1, var1), Lit(self.p6)),
                    Shl(64, Mul(64, var1, Lit(self.p5)), 17)),
            Shl(64, Lit(self.p4), 35))

\* var1 of lines 98-99, from var1 = t_fine - 128000
pressure_var1(self, var1) ==
    Shr(Mul(64, Add(64, Shl(64, Lit(1), 47),
                        Add(64, Shr(Mul(64, Mul(64, var1, var1), Lit(self.p3)), 8),
                                Shl(64, Mul(64, var1, Lit(self.p2)), 12))),
                Lit(self.p1)), 33)

\* faulty variant of pressure_output: the P9 term built on p >> 12, not p >> 13
pressure_output_shr12(self, p) ==
    AsU32(Add(64, Shr(Add(64, Add(64, p, Shr(Mul(64, Mul(64, Lit(self.p9), Shr(p, 12)),
                                                 Shr(p, 12)), 25)),
                              Shr(Mul(64, Lit(self.p8), p), 19)), 8),
                  Shl(64, Lit(self.p7), 4)))

\* lines 106-110, from p of line 105
pressure_output(self, p) ==
    AsU32(Add(64, Shr(Add(64, Add(64, p, Shr(Mul(64, Mul(64, Lit(self.p9), Shr(p, 13)),
                                                 Shr(p, 13)), 25)),
                              Shr(Mul(64, Lit(self.p8), p), 19)), 8),
                  Shl(64, Lit(self.p7), 4)))

\* line 105 and what follows it: divided says whether the division was executed
pressure_divide(self, num, var1) ==
    [x |-> pressure_output(self, Div(64, num, var1)),
     divided |-> ~Panics(num) /\ ~Panics(var1)]

\* faulty variant of pressure_branch: no test of var1 before the division
pressure_branch_untested(self, adc_p, var2, var1) ==
    pressure_divide(self,
        Mul(64, Sub(64, Shl(64, Sub(64, Lit(1048576), adc_p), 31), var2), Lit(3125)),
        var1)

\* lines 101-112; var2 was computed (and may have overflowed) before the test
pressure_branch(self, adc_p, var2, var1) ==
    IF var1.v = Z(0)
    THEN [x |-> [p |-> var1.p \/ var2.p, o |-> var1.o \/ var2.o, v |-> Z(0)],
          divided |-> FALSE]
    ELSE pressure_divide(self,
             Mul(64, Sub(64, Shl(64, Sub(64, Lit(1048576), adc_p), 31), var2), Lit(3125)),
             var1)

pressure_from(self, adc_p, var1) ==
    pressure_branch(self, adc_p, pressure_var2(self, var1), pressure_var1(self, var1))

compensate_pressure(self, adc_p, t_fine_) ==
    pressure_from(self, adc_p, Sub(64, t_fine_, Lit(128000)))

\* the two factors of lines 143-145, from var1 = t_fine - 76800
humidity_left(self, adc_h, var1) ==
    Shr(Add(32, Sub(32, Sub(32, Shl(32, adc_h, 14), Shl(32, Lit(self.h4), 20)),
                        Mul(32, Lit(self.h5), var1)),
            Lit(16384)), 15)

humidity_right(self, var1) ==
    Shr(Add(32, Mul(32, Add(32, Shr(Mul(32, Shr(Mul(32, var1, Lit(self.h6)), 10),
                                        Add(32, Shr(Mul(32, var1, Lit(self.h3)), 11),
                                                Lit(32768))), 10),
                            Lit(2097152)),
                    Lit(self.h2)),
            Lit(8192)), 14)

\* faulty variant of humidity_correct: the H1 term left out
humidity_correct_without_h1(self, var1) == var1

\* line 146
humidity_correct(self, var1) ==
    Sub(32, var1, Shr(Mul(32, Shr(Mul(32, Shr(var1, 15), Shr(var1, 15)), 7),
                          Lit(self.h1)), 4))

\* faulty variant of humidity_clamp: clamped below only
humidity_clamp_below(var1) ==
    Shr(IF ZLt(var1.v, Z(0)) THEN [var1 EXCEPT !.v = Z(0)] ELSE var1, 12)

\* lines 147-153
humidity_clamp(var1) ==
    Shr(IF ZLt(var1.v, Z(0)) THEN [var1 EXCEPT !.v = Z(0)]
        ELSE IF ZLt(Z(419430400), var1.v) THEN [var1 EXCEPT !.v = Z(419430400)]
        ELSE var1, 12)

humidity_from(self, adc_h, var1) ==
    humidity_clamp(humidity_correct(self,
        Mul(32, humidity_left(self, adc_h, var1), humidity_right(self, var1))))

compensate_humidity(self, adc_h, t_fine_) ==
    humidity_from(self, adc_h, Sub(32, t_fine_, Lit(76800)))

(***************************************************************************)
(* The register layer (src/src/i2c.rs).  A device d is                     *)
(*   regs     the register file of the chip, register name -> byte         *)
(*   log      the bus transactions issued so far by the running operation  *)
(*   fail     the number of the transaction that fails (0: none does)      *)
(*   panicked whether an unwrap() of an Err has ended the program          *)
(* Bytes, u16 and the 20-bit samples are TLC integers.                     *)
(***************************************************************************)
RECURSIVE BitAnd(_, _)
BitAnd(a, b) ==
    IF a = 0 \/ b = 0 THEN 0
    ELSE (a % 2) * (b % 2) + 2 * BitAnd(a \div 2, b \div 2)

RECURSIVE BitOr(_, _)
BitOr(a, b) ==
    IF a = 0 THEN b
    ELSE IF b = 0 THEN a
    ELSE Max(a % 2, b % 2) + 2 * BitOr(a \div 2, b \div 2)

\* x << k in an unsigned type of w bits: the bits shifted out are dropped
ShlU(w, x, k) == (x % 2^(w - k)) * 2^k

ShrU(x, k) == x \div 2^k

\* `x as i16` of a u16, `x as i8` of a u8
AsI16(x) == IF x >= 2^15 THEN x - 2^16 ELSE x

AsI8(x) == IF x >= 2^7 THEN x - 2^8 ELSE x

read_u16(buffer) == buffer[1] + 256 * buffer[2]

read_i16(buffer) == AsI16(read_u16(buffer))

Dev(rs, f) == [regs |-> rs, log |-> <<>>, fail |-> f, panicked |-> FALSE]

\* dev.i2c.write_read(address, [register], buffer); nothing runs after a panic
read_from_register(d, register) ==
    IF d.panicked THEN [d |-> d, ok |-> FALSE, byte |-> 0]
    ELSE LET ok == d.fail # Len(d.log) + 1
         IN  [d    |-> [d EXCEPT !.log = Append(@, [op |-> "write_read", reg |-> register])],
              ok   |-> ok,
              byte |-> IF ok THEN d.regs[register] ELSE 0]

\* dev.i2c.write(address, [register, byte]); the chip keeps what was written
write_to_register(d, register, byte) ==
    IF d.panicked THEN [d |-> d, ok |-> FALSE]
    ELSE LET ok == d.fail # Len(d.log) + 1
             d1 == [d EXCEPT !.log = Append(@, [op |-> "write", reg |-> register,
                                                byte |-> byte])]
         IN  [d  |-> IF ok THEN [d1 EXCEPT !.regs[register] = byte] ELSE d1,
              ok |-> ok]

\* Result::unwrap(): an Err ends the program
unwrap(r) == IF r.ok THEN r.d ELSE [r.d EXCEPT !.panicked = TRUE]

RECURSIVE read_multiple_from(_, _, _, _)
read_multiple_from(d, registers, i, buffer) ==
    IF i > Len(registers) THEN [d |-> d, ok |-> TRUE, buffer |-> buffer]
    ELSE LET r == read_from_register(d, registers[i])
         IN  IF r.ok THEN read_multiple_from(r.d, registers, i + 1, Append(buffer, r.byte))
             ELSE [d |-> r.d, ok |-> FALSE, buffer |-> <<>>]

read_multiple_registers(d, registers) == read_multiple_from(d, registers, 1, <<>>)

\* the getters built on read_multiple_registers(..).unwrap() of two registers
get_u16(d, lsb, msb) ==
    LET r == read_multiple_registers(d, <<lsb, msb>>)
    IN  [d |-> unwrap(r), value |-> IF r.ok THEN read_u16(r.buffer) ELSE 0]

get_i16(d, lsb, msb) ==
    LET r == read_multiple_registers(d, <<lsb, msb>>)
    IN  [d |-> unwrap(r), value |-> IF r.ok THEN read_i16(r.buffer) ELSE 0]

\* ... and of one register: buffer.pop().unwrap()
get_u8(d, register) ==
    LET r == read_multiple_registers(d, <<register>>)
    IN  [d |-> unwrap(r), value |-> IF r.ok THEN r.buffer[Len(r.buffer)] ELSE 0]

get_t1(d) == get_u16(d, "DIG_T1_LSB_REG", "DIG_T1_MSB_REG")
get_t2(d) == get_i16(d, "DIG_T2_LSB_REG", "DIG_T2_MSB_REG")
get_t3(d) == get_i16(d, "DIG_T3_LSB_REG", "DIG_T3_MSB_REG")
get_p1(d) == get_u16(d, "DIG_P1_LSB_REG", "DIG_P1_MSB_REG")
get_p2(d) == get_i16(d, "DIG_P2_LSB_REG", "DIG_P2_MSB_REG")
get_p3(d) == get_i16(d, "DIG_P3_LSB_REG", "DIG_P3_MSB_REG")
get_p4(d) == get_i16(d, "DIG_P4_LSB_REG", "DIG_P4_MSB_REG")
get_p5(d) == get_i16(d, "DIG_P5_LSB_REG", "DIG_P5_MSB_REG")
get_p6(d) == get_i16(d, "DIG_P6_LSB_REG", "DIG_P6_MSB_REG")
get_p7(d) == get_i16(d, "DIG_P7_LSB_REG", "DIG_P7_MSB_REG")
get_p8(d) == get_i16(d, "DIG_P8_LSB_REG", "DIG_P8_MSB_REG")
get_p9(d) == get_i16(d, "DIG_P9_LSB_REG", "DIG_P9_MSB_REG")
get_h1(d) == get_u8(d, "DIG_H1_REG")
get_h2(d) == get_i16(d, "DIG_H2_LSB_REG", "DIG_H2_MSB_REG")
get_h3(d) == get_u8(d, "DIG_H3_REG")

\* three reads, each unwrapped, into buffer[0..3]
read3(d, r0, r1, r2) ==
    LET a  == read_from_register(d, r0)
        b  == read_from_register(unwrap(a), r1)
        c  == read_from_register(unwrap(b), r2)
    IN  [buffer |-> <<a.byte, b.byte, c.byte>>, d |-> unwrap(c)]

read2(d, r0, r1) ==
    LET a  == read_from_register(d, r0)
        b  == read_from_register(unwrap(a), r1)
    IN  [buffer |-> <<a.byte, b.byte>>, d |-> unwrap(b)]

\* faulty variant of get_h4: the 12-bit field is sign-extended
get_h4_sign_extended(d) ==
    LET r == read2(d, "DIG_H4_MSB_REG", "DIG_H4_LSB_REG")
    IN  [d     |-> r.d,
         value |-> AsI16(BitOr(ShlU(16, r.buffer[1], 4), BitAnd(r.buffer[2], 15)))
                   - (IF r.buffer[1] >= 128 THEN 4096 ELSE 0)]

get_h4(d) ==
    LET r == read2(d, "DIG_H4_MSB_REG", "DIG_H4_LSB_REG")
    IN  [d     |-> r.d,
         value |-> AsI16(BitOr(ShlU(16, r.buffer[1], 4), BitAnd(r.buffer[2], 15)))]

\* faulty variant of get_h5: the low nibble of the shared byte, as get_h4 takes
get_h5_low_nibble(d) ==
    LET r == read2(d, "DIG_H5_MSB_REG", "DIG_H4_LSB_REG")
    IN  [d     |-> r.d,
         value |-> AsI16(BitOr(ShlU(16, r.buffer[1], 4), BitAnd(r.buffer[2], 15)))]

get_h5(d) ==
    LET r == read2(d, "DIG_H5_MSB_REG", "DIG_H4_LSB_REG")
    IN  [d     |-> r.d,
         value |-> AsI16(BitOr(ShlU(16, r.buffer[1], 4),
                               BitAnd(ShrU(r.buffer[2], 4), 15)))]

get_h6(d) ==
    LET r == read_from_register(d, "DIG_H6_REG")
    IN  [d |-> unwrap(r), value |-> AsI8(r.byte)]

\* faulty variant of raw20: the low nibble of XLSB, not the high one
raw20_low_nibble(buffer) ==
    BitOr(BitOr(ShlU(32, buffer[1], 12), ShlU(32, buffer[2], 4)), BitAnd(buffer[3], 15))

\* (MSB << 12) | (LSB << 4) | ((XLSB >> 4) & 0x0F) in u32
raw20(buffer) ==
    BitOr(BitOr(ShlU(32, buffer[1], 12), ShlU(32, buffer[2], 4)),
          BitAnd(ShrU(buffer[3], 4), 15))

get_temperature_raw(d) ==
    LET r == read3(d, "TEMPERATURE_MSB_REG", "TEMPERATURE_LSB_REG", "TEMPERATURE_XLSB_REG")
    IN  [d |-> r.d, value |-> raw20(r.buffer)]

get_pressure_raw(d) ==
    LET r == read3(d, "PRESSURE_MSB_REG", "PRESSURE_LSB_REG", "PRESSURE_XLSB_REG")
    IN  [d |-> r.d, value |-> raw20(r.buffer)]

get_humidity_raw(d) ==
    LET r == read2(d, "HUMIDITY_MSB_REG", "HUMIDITY_LSB_REG")
    IN  [d |-> r.d, value |-> BitOr(ShlU(32, r.buffer[1], 8), r.buffer[2])]

(***************************************************************************)
(* The enumerated options and the configuration setters (src/src/i2c.rs).  *)
(***************************************************************************)
u8_from_Mode(item) ==
    CASE item = "Sleep" -> 0 [] item = "Forced" -> 1 [] item = "Normal" -> 3

u8_from_Oversampling(value) ==
    CASE value = "Skipped" -> 0 [] value = "Ox1" -> 1 [] value = "Ox2" -> 2
      [] value = "Ox4" -> 3 [] value = "Ox8" -> 4 [] value = "Ox16" -> 5

u8_from_StandyTime(value) ==
    CASE value = "Ms0_5" -> 0 [] value = "Ms62_5" -> 1 [] value = "Ms125" -> 2
      [] value = "Ms250" -> 3 [] value = "Ms500" -> 4 [] value = "Ms1000" -> 5
      [] value = "Ms10" -> 6 [] value = "Ms20" -> 7

u8_from_Filter(value) ==
    CASE value = "Off" -> 0 [] value = "C2" -> 1 [] value = "C4" -> 2
      [] value = "C8" -> 3 [] value = "C16" -> 4

\* the decoders: a variant, or the panic of the catch-all arm
Mode_from_u8(item) ==
    CASE item = 0 -> [panic |-> FALSE, variant |-> "Sleep"]
      [] item = 1 -> [panic |-> FALSE, variant |-> "Forced"]
      [] item = 2 -> [panic |-> FALSE, variant |-> "Forced"]
      [] item = 3 -> [panic |-> FALSE, variant |-> "Normal"]
      [] OTHER -> [panic |-> TRUE]

Oversampling_from_u8(value) ==
    CASE value = 0 -> [panic |-> FALSE, variant |-> "Skipped"]
      [] value = 1 -> [panic |-> FALSE, variant |-> "Ox1"]
      [] value = 2 -> [panic |-> FALSE, variant |-> "Ox2"]
      [] value = 3 -> [panic |-> FALSE, variant |-> "Ox4"]
      [] value = 4 -> [panic |-> FALSE, variant |-> "Ox8"]
      [] OTHER -> [panic |-> FALSE, variant |-> "Ox16"]

StandyTime_from_u8(value) ==
    CASE value = 0 -> [panic |-> FALSE, variant |-> "Ms0_5"]
      [] value = 1 -> [panic |-> FALSE, variant |-> "Ms62_5"]
      [] value = 2 -> [panic |-> FALSE, variant |-> "Ms125"]
      [] value = 3 -> [panic |-> FALSE, variant |-> "Ms250"]
      [] value = 4 -> [panic |-> FALSE, variant |-> "Ms500"]
      [] value = 5 -> [panic |-> FALSE, variant |-> "Ms1000"]
      [] value = 6 -> [panic |-> FALSE, variant |-> "Ms10"]
      [] value = 7 -> [panic |-> FALSE, variant |-> "Ms20"]
      [] OTHER -> [panic |-> TRUE]

Filter_from_u8(value) ==
    CASE BitAnd(value, 7) = 0 -> [panic |-> FALSE, variant |-> "Off"]
      [] BitAnd(value, 7) = 1 -> [panic |-> FALSE, variant |-> "C2"]
      [] BitAnd(value, 7) = 2 -> [panic |-> FALSE, variant |-> "C4"]
      [] BitAnd(value, 7) = 3 -> [panic |-> FALSE, variant |-> "C8"]
      [] OTHER -> [panic |-> FALSE, variant |-> "C16"]

\* read the register, keep the bits of mask, or in the field, write it back
set_field(d, register, mask, field) ==
    LET r == read_from_register(d, register)
        old_state == BitAnd(r.byte, mask)
        new_state == BitOr(old_state, field)
    IN  unwrap(write_to_register(unwrap(r), register, new_state))

set_mode(d, mode) == set_field(d, "CTRL_MEAS_REG", 252, u8_from_Mode(mode))

set_humidity_oversample(d, rate) ==
    set_field(d, "CTRL_HUMIDITY_REG", 248, u8_from_Oversampling(rate))

set_temperature_oversample(d, rate) ==
    set_field(d, "CTRL_MEAS_REG", 31, ShlU(8, u8_from_Oversampling(rate), 5))

set_pressure_oversample(d, rate) ==
    set_field(d, "CTRL_MEAS_REG", 227, ShlU(8, u8_from_Oversampling(rate), 2))

set_standby_time(d, standby) ==
    set_field(d, "CONFIG_REG", 31, ShlU(8, u8_from_StandyTime(standby), 5))

\* faulty variant of set_filter: the mask of the standby field
set_filter_standby_mask(d, filter) ==
    set_field(d, "CONFIG_REG", 31, ShlU(8, u8_from_Filter(filter), 2))

set_filter(d, filter) ==
    set_field(d, "CONFIG_REG", 227, ShlU(8, u8_from_Filter(filter), 2))

\* values::SOFT_RESET, the reset word of the chip
SOFT_RESET == 182

dev_reset(d) == unwrap(write_to_register(d, "RST_REG", SOFT_RESET))

get_status(d) ==
    LET r == read_from_register(d, "STAT_REG")
    IN  [d |-> unwrap(r), value |-> r.byte]

dev_is_measuring(d) ==
    LET r == get_status(d)
    IN  [d |-> r.d, value |-> ShrU(BitAnd(r.value, 4), 2) = 1]

dev_is_updating(d) ==
    LET r == get_status(d)
    IN  [d |-> r.d, value |-> BitAnd(r.value, 1) = 1]

(***************************************************************************)
(* Calibration::build (src/src/calibration.rs): the eighteen getters in    *)
(* the order of the constructors' arguments.                               *)
(***************************************************************************)
TemperatureCalibration_build(d) ==
    LET a == get_t1(d)
        b == get_t2(a.d)
        c == get_t3(b.d)
    IN  [value |-> [t1 |-> a.value, t2 |-> b.value, t3 |-> c.value], d |-> c.d]

PressureCalibration_build(d) ==
    LET a == get_p1(d)
        b == get_p2(a.d)
        c == get_p3(b.d)
        e == get_p4(c.d)
        f == get_p5(e.d)
        g == get_p6(f.d)
        h == get_p7(g.d)
        i == get_p8(h.d)
        j == get_p9(i.d)
    IN  [value |-> [p1 |-> a.value, p2 |-> b.value, p3 |-> c.value, p4 |-> e.value,
                    p5 |-> f.value, p6 |-> g.value, p7 |-> h.value, p8 |-> i.value,
                    p9 |-> j.value],
         d |-> j.d]

\* faulty variant of HumidityCalibration_build: H5 is read before H4
HumidityCalibration_build_h5_first(d) ==
    LET a == get_h1(d)
        b == get_h2(a.d)
        c == get_h3(b.d)
        f == get_h5(c.d)
        e == get_h4(f.d)
        g == get_h6(e.d)
    IN  [value |-> [h1 |-> a.value, h2 |-> b.value, h3 |-> c.value, h4 |-> e.value,
                    h5 |-> f.value, h6 |-> g.value],
         d |-> g.d]

HumidityCalibration_build(d) ==
    LET a == get_h1(d)
        b == get_h2(a.d)
        c == get_h3(b.d)
        e == get_h4(c.d)
        f == get_h5(e.d)
        g == get_h6(f.d)
    IN  [value |-> [h1 |-> a.value, h2 |-> b.value, h3 |-> c.value, h4 |-> e.value,
                    h5 |-> f.value, h6 |-> g.value],
         d |-> g.d]

Calibration_build(d) ==
    LET t == TemperatureCalibration_build(d)
        p == PressureCalibration_build(t.d)
        h == HumidityCalibration_build(p.d)
    IN  [value |-> [built |-> TRUE, temperature |-> t.value, pressure |-> p.value,
                    humidity |-> h.value],
         d |-> h.d]

(***************************************************************************)
(* The sensor facade (src/src/lib.rs).  A handler takes the fields of the  *)
(* sensor and the device and returns the device after it, whether the      *)
(* program panicked, the new t_fine and the value handed to the caller.    *)
(* The f64 results are exact quotients of the fixed-point integers         *)
(* (centidegrees / 100, pressure_fixed / 256, humidity_fixed / 1024); the  *)
(* model hands back the fixed-point integer.                               *)
(***************************************************************************)
sensor_with(c) ==
    [calibration |-> c.value, d |-> c.d, panic |-> c.d.panicked, t_fine |-> Z(0)]

AtmosphericSensor_new(d) == sensor_with(Calibration_build(d))

start(d) ==
    LET a == set_standby_time(d, "Ms0_5")
        b == set_filter(a, "Off")
        c == set_temperature_oversample(b, "Ox1")
        e == set_pressure_oversample(c, "Ox1")
        f == set_humidity_oversample(e, "Ox1")
    IN  set_mode(f, "Normal")

stop(d) == set_mode(d, "Sleep")

\* lines 72-74, once the raw read r has returned: x is the compensated value
temperature_result(tf, d, x) ==
    [d      |-> d,
     panic  |-> Panics(x) \/ Panics(Shr(Add(32, Mul(32, Val(x.v), Lit(5)), Lit(128)), 8)),
     stored |-> ~Panics(x),
     t_fine |-> IF Panics(x) THEN tf ELSE x.v,
     value  |-> Shr(Add(32, Mul(32, Val(x.v), Lit(5)), Lit(128)), 8).v]

\* a raw read that panicked ends the call before anything else happens
aborted(tf, d) ==
    [d |-> d, panic |-> TRUE, stored |-> FALSE, consumed |-> FALSE, adc |-> 0,
     used |-> tf, t_fine |-> tf, value |-> Z(0)]

temperature_after(cal, tf, r) ==
    IF r.d.panicked THEN aborted(tf, r.d)
    ELSE temperature_result(tf, r.d, compensate_temperature(cal.temperature, Lit(r.value)))

get_temperature_celsius(cal, tf, d) == temperature_after(cal, tf, get_temperature_raw(d))

\* adc is the sample and used the t_fine handed to the compensation
consumer_result(tf, r, x) ==
    [d |-> r.d, panic |-> Panics(x), consumed |-> TRUE, adc |-> r.value, used |-> tf,
     t_fine |-> tf, value |-> x.v]

pressure_after(cal, tf, r) ==
    IF r.d.panicked THEN aborted(tf, r.d)
    ELSE consumer_result(tf, r, compensate_pressure(cal.pressure, Lit(r.value), Val(tf)).x)

get_pressure_pascal(cal, tf, d) == pressure_after(cal, tf, get_pressure_raw(d))

humidity_after(cal, tf, r) ==
    IF r.d.panicked THEN aborted(tf, r.d)
    ELSE consumer_result(tf, r, compensate_humidity(cal.humidity, Lit(r.value), Val(tf)))

get_humidity_relative(cal, tf, d) == humidity_after(cal, tf, get_humidity_raw(d))

(***************************************************************************)
(* The chip.  Its calibration block holds the coefficients as the decoders *)
(* expect them (src/src/lib.rs, tests::get_mock_calibration); its data     *)
(* registers hold the last measurement.                                    *)
(***************************************************************************)
Lo(x) == x % 256
Hi(x) == (x % 65536) \div 256

CalibrationBlock(c) ==
    LET t == c.temperature
        p == c.pressure
        h == c.humidity
    IN  [DIG_T1_LSB_REG |-> Lo(t.t1), DIG_T1_MSB_REG |-> Hi(t.t1),
         DIG_T2_LSB_REG |-> Lo(t.t2), DIG_T2_MSB_REG |-> Hi(t.t2),
         DIG_T3_LSB_REG |-> Lo(t.t3), DIG_T3_MSB_REG |-> Hi(t.t3),
         DIG_P1_LSB_REG |-> Lo(p.p1), DIG_P1_MSB_REG |-> Hi(p.p1),
         DIG_P2_LSB_REG |-> Lo(p.p2), DIG_P2_MSB_REG |-> Hi(p.p2),
         DIG_P3_LSB_REG |-> Lo(p.p3), DIG_P3_MSB_REG |-> Hi(p.p3),
         DIG_P4_LSB_REG |-> Lo(p.p4), DIG_P4_MSB_REG |-> Hi(p.p4),
         DIG_P5_LSB_REG |-> Lo(p.p5), DIG_P5_MSB_REG |-> Hi(p.p5),
         DIG_P6_LSB_REG |-> Lo(p.p6), DIG_P6_MSB_REG |-> Hi(p.p6),
         DIG_P7_LSB_REG |-> Lo(p.p7), DIG_P7_MSB_REG |-> Hi(p.p7),
         DIG_P8_LSB_REG |-> Lo(p.p8), DIG_P8_MSB_REG |-> Hi(p.p8),
         DIG_P9_LSB_REG |-> Lo(p.p9), DIG_P9_MSB_REG |-> Hi(p.p9),
         DIG_H1_REG     |-> h.h1,
         DIG_H2_LSB_REG |-> Lo(h.h2), DIG_H2_MSB_REG |-> Hi(h.h2),
         DIG_H3_REG     |-> h.h3,
         DIG_H4_MSB_REG |-> h.h4 \div 16,
         DIG_H4_LSB_REG |-> (h.h5 % 16) * 16 + (h.h4 % 16),
         DIG_H5_MSB_REG |-> h.h5 \div 16,
         DIG_H6_REG     |-> Lo(h.h6)]

DataBlock(s) ==
    [TEMPERATURE_MSB_REG |-> s.t[1], TEMPERATURE_LSB_REG |-> s.t[2],
     TEMPERATURE_XLSB_REG |-> s.t[3],
     PRESSURE_MSB_REG |-> s.p[1], PRESSURE_LSB_REG |-> s.p[2],
     PRESSURE_XLSB_REG |-> s.p[3],
     HUMIDITY_MSB_REG |-> s.h[1], HUMIDITY_LSB_REG |-> s.h[2]]

ControlBlock(b) ==
    [CTRL_MEAS_REG |-> b, CONFIG_REG |-> b, CTRL_HUMIDITY_REG |-> b,
     STAT_REG |-> b % 16, RST_REG |-> 0]

\* the chips: the coefficient sets of the tests of src/src/calibration.rs, an
\* erased block (every byte 0) and a blank one (every byte 0xFF)
Chips ==
    <<[built       |-> TRUE,
       temperature |-> [t1 |-> 28485, t2 |-> 26735, t3 |-> 50],
       pressure    |-> [p1 |-> 36738, p2 |-> -10635, p3 |-> 3024, p4 |-> 6980, p5 |-> -4,
                        p6 |-> -7, p7 |-> 9900, p8 |-> -10230, p9 |-> 4285],
       humidity    |-> [h1 |-> 75, h2 |-> 365, h3 |-> 0, h4 |-> 312, h5 |-> 50, h6 |-> 30]],
      [built       |-> TRUE,
       temperature |-> [t1 |-> 0, t2 |-> 0, t3 |-> 0],
       pressure    |-> [p1 |-> 0, p2 |-> 0, p3 |-> 0, p4 |-> 0, p5 |-> 0,
                        p6 |-> 0, p7 |-> 0, p8 |-> 0, p9 |-> 0],
       humidity    |-> [h1 |-> 0, h2 |-> 0, h3 |-> 0, h4 |-> 0, h5 |-> 0, h6 |-> 0]],
      [built       |-> TRUE,
       temperature |-> [t1 |-> 65535, t2 |-> -1, t3 |-> -1],
       pressure    |-> [p1 |-> 65535, p2 |-> -1, p3 |-> -1, p4 |-> -1, p5 |-> -1,
                        p6 |-> -1, p7 |-> -1, p8 |-> -1, p9 |-> -1],
       humidity    |-> [h1 |-> 255, h2 |-> -1, h3 |-> 255, h4 |-> 4095, h5 |-> 4095,
                        h6 |-> -1]]>>

\* measurements: the raw samples of the tests of src/src/calibration.rs first
Measurements ==
    <<[t |-> <<128, 189, 0>>, p |-> <<82, 79, 0>>, h |-> <<117, 97>>],
      [t |-> <<126, 16, 240>>, p |-> <<101, 90, 192>>, h |-> <<110, 213>>],
      [t |-> <<255, 255, 255>>, p |-> <<0, 0, 0>>, h |-> <<255, 255>>],
      [t |-> <<0, 0, 0>>, p |-> <<255, 255, 255>>, h |-> <<0, 0>>]>>

ControlBytes == <<0, 255, 165, 90>>

\* how many of Chips, Measurements and ControlBytes the facade is run on
NumChips == 2
NumMeasurements == 2
NumControlBytes == 2

NoCalibration == [built |-> FALSE]

(***************************************************************************)
(* The facade as a state machine: one action per public method of          *)
(* AtmosphericSensor, each a whole call; f is the bus transaction of the   *)
(* call that fails (0: none).                                              *)
(***************************************************************************)
Init ==
    /\ overflow_checks \in BOOLEAN
    /\ pc = "boot"
    /\ \E c \in 1..NumChips, b \in 1..NumControlBytes :
          regs = CalibrationBlock(Chips[c]) @@ DataBlock(Measurements[1])
                 @@ ControlBlock(ControlBytes[b])
    /\ calibration = NoCalibration
    /\ t_fine = Z(0)
    /\ t_src = [by |-> "none"]
    /\ call = [op |-> "none"]
    /\ ret = [panic |-> FALSE]
    /\ bus = <<>>

\* the chip finishes a measurement and latches it into its data registers
DeviceMeasure ==
    /\ pc = "ready"
    /\ \E m \in 1..NumMeasurements :
          regs' = DataBlock(Measurements[m]) @@ regs
    /\ regs' # regs
    /\ UNCHANGED <<overflow_checks, pc, calibration, t_fine, t_src, call, ret, bus>>

Created(f, r) ==
    /\ call' = [op |-> "new", fail |-> f]
    /\ bus' = r.d.log
    /\ regs' = r.d.regs
    /\ IF r.panic
       THEN /\ pc' = "panicked"
            /\ ret' = [panic |-> TRUE]
            /\ UNCHANGED <<calibration, t_fine, t_src>>
       ELSE /\ pc' = "ready"
            /\ ret' = [panic |-> FALSE]
            /\ calibration' = r.calibration
            /\ t_fine' = r.t_fine
            /\ t_src' = [by |-> "new"]
    /\ UNCHANGED overflow_checks

New == pc = "boot" /\ \E f \in 0..33 : Created(f, AtmosphericSensor_new(Dev(regs, f)))

\* faulty variant of Drive: the method clears the t_fine the sensor holds
Drive_clearing_t_fine(op, d) ==
    /\ call' = [op |-> op, fail |-> d.fail]
    /\ bus' = d.log
    /\ regs' = d.regs
    /\ pc' = IF d.panicked THEN "panicked" ELSE "ready"
    /\ ret' = [panic |-> d.panicked]
    /\ t_fine' = Z(0)
    /\ UNCHANGED <<overflow_checks, calibration, t_src>>

\* a method that only drives the device: start, stop, reset
Drive(op, d) ==
    /\ call' = [op |-> op, fail |-> d.fail]
    /\ bus' = d.log
    /\ regs' = d.regs
    /\ pc' = IF d.panicked THEN "panicked" ELSE "ready"
    /\ ret' = [panic |-> d.panicked]
    /\ UNCHANGED <<overflow_checks, calibration, t_fine, t_src>>

Start == pc = "ready" /\ \E f \in 0..12 : Drive("start", start(Dev(regs, f)))

Stop == pc = "ready" /\ \E f \in 0..2 : Drive("stop", stop(Dev(regs, f)))

Reset == pc = "ready" /\ \E f \in 0..1 : Drive("reset", dev_reset(Dev(regs, f)))

\* is_measuring, is_updating
Query(op, r) ==
    /\ call' = [op |-> op, fail |-> r.d.fail]
    /\ bus' = r.d.log
    /\ regs' = r.d.regs
    /\ pc' = IF r.d.panicked THEN "panicked" ELSE "ready"
    /\ ret' = IF r.d.panicked THEN [panic |-> TRUE]
              ELSE [panic |-> FALSE, value |-> r.value]
    /\ UNCHANGED <<overflow_checks, calibration, t_fine, t_src>>

IsMeasuring ==
    pc = "ready" /\ \E f \in 0..1 : Query("is_measuring", dev_is_measuring(Dev(regs, f)))

IsUpdating ==
    pc = "ready" /\ \E f \in 0..1 : Query("is_updating", dev_is_updating(Dev(regs, f)))

Produce(f, r) ==
    /\ call' = [op |-> "get_temperature_celsius", fail |-> f]
    /\ bus' = r.d.log
    /\ regs' = r.d.regs
    /\ pc' = IF r.panic THEN "panicked" ELSE "ready"
    /\ ret' = IF r.panic THEN [panic |-> TRUE]
              ELSE [panic |-> FALSE, value |-> r.value]
    /\ t_fine' = r.t_fine
    /\ t_src' = IF r.stored
                THEN [by |-> "compensate_temperature", value |-> r.t_fine]
                ELSE t_src
    /\ UNCHANGED <<overflow_checks, calibration>>

GetTemperature ==
    /\ pc = "ready"
    /\ \E f \in 0..3 :
          Produce(f, get_temperature_celsius(calibration, t_fine, Dev(regs, f)))

\* faulty variant of Consume: the getter clears the t_fine the sensor holds
Consume_clearing_t_fine(op, f, r) ==
    /\ call' = [op |-> op, fail |-> f, consumed |-> r.consumed, adc |-> r.adc,
                used |-> r.used, t_src |-> t_src]
    /\ bus' = r.d.log
    /\ regs' = r.d.regs
    /\ pc' = IF r.panic THEN "panicked" ELSE "ready"
    /\ ret' = IF r.panic THEN [panic |-> TRUE]
              ELSE [panic |-> FALSE, value |-> r.value]
    /\ t_fine' = Z(0)
    /\ UNCHANGED <<overflow_checks, calibration, t_src>>

\* get_pressure_pascal, get_humidity_relative
Consume(op, f, r) ==
    /\ call' = [op |-> op, fail |-> f, consumed |-> r.consumed, adc |-> r.adc,
                used |-> r.used, t_src |-> t_src]
    /\ bus' = r.d.log
    /\ regs' = r.d.regs
    /\ pc' = IF r.panic THEN "panicked" ELSE "ready"
    /\ ret' = IF r.panic THEN [panic |-> TRUE]
              ELSE [panic |-> FALSE, value |-> r.value]
    /\ t_fine' = r.t_fine
    /\ UNCHANGED <<overflow_checks, calibration, t_src>>

GetPressure ==
    /\ pc = "ready"
    /\ \E f \in 0..3 :
          Consume("get_pressure_pascal", f,
                  get_pressure_pascal(calibration, t_fine, Dev(regs, f)))

GetHumidity ==
    /\ pc = "ready"
    /\ \E f \in 0..2 :
          Consume("get_humidity_relative", f,
                  get_humidity_relative(calibration, t_fine, Dev(regs, f)))

Next ==
    \/ New
    \/ DeviceMeasure
    \/ Start
    \/ Stop
    \/ Reset
    \/ IsMeasuring
    \/ IsUpdating
    \/ GetTemperature
    \/ GetPressure
    \/ GetHumidity

Spec == Init /\ [][Next]_vars

(***************************************************************************)
(* The compensation engine on its own: each action is one call of one of   *)
(* the three pure functions of src/src/calibration.rs on inputs drawn from *)
(* the sets below (the vectors of the unit tests first, then the extremes  *)
(* of each type).                                                          *)
(***************************************************************************)
TemperatureSets ==
    <<[t1 |-> 28485, t2 |-> 26735, t3 |-> 50],
      [t1 |-> 0, t2 |-> 32767, t3 |-> 32767],
      [t1 |-> 65535, t2 |-> -32768, t3 |-> -32768],
      [t1 |-> 0, t2 |-> 0, t3 |-> 0],
      [t1 |-> 65535, t2 |-> 32767, t3 |-> 50]>>

PressureSets ==
    <<[p1 |-> 36738, p2 |-> -10635, p3 |-> 3024, p4 |-> 6980, p5 |-> -4, p6 |-> -7,
       p7 |-> 9900, p8 |-> -10230, p9 |-> 4285],
      [p1 |-> 0, p2 |-> -10635, p3 |-> 3024, p4 |-> 6980, p5 |-> -4, p6 |-> -7,
       p7 |-> 9900, p8 |-> -10230, p9 |-> 4285],
      [p1 |-> 65535, p2 |-> 32767, p3 |-> 32767, p4 |-> 32767, p5 |-> 32767,
       p6 |-> 32767, p7 |-> 32767, p8 |-> 32767, p9 |-> 32767],
      [p1 |-> 1, p2 |-> -32768, p3 |-> -32768, p4 |-> -32768, p5 |-> -32768,
       p6 |-> -32768, p7 |-> -32768, p8 |-> -32768, p9 |-> -32768],
      [p1 |-> 0, p2 |-> 0, p3 |-> 0, p4 |-> 0, p5 |-> 0, p6 |-> 0, p7 |-> 0, p8 |-> 0,
       p9 |-> 0]>>

HumiditySets ==
    <<[h1 |-> 75, h2 |-> 365, h3 |-> 0, h4 |-> 312, h5 |-> 50, h6 |-> 30],
      [h1 |-> 255, h2 |-> -1, h3 |-> 255, h4 |-> 4095, h5 |-> 4095, h6 |-> -1],
      [h1 |-> 255, h2 |-> 32767, h3 |-> 255, h4 |-> 32767, h5 |-> 32767, h6 |-> 127],
      [h1 |-> 0, h2 |-> -32768, h3 |-> 0, h4 |-> -32768, h5 |-> -32768, h6 |-> -128],
      [h1 |-> 0, h2 |-> 0, h3 |-> 0, h4 |-> 0, h5 |-> 0, h6 |-> 0]>>

\* 20-bit samples (temperature, pressure) and 16-bit samples (humidity)
Raw20 == <<527312, 1048575, 337136, 0, 516367>>
Raw16 == <<30049, 65535, 0, 28373, 32768>>

TFines == <<120035, 116770, 0, 2147483647, -2147483647, 128000>>

\* how many entries of each list the engine is run on
NumSets == 4
NumRaw == 4
NumTFines == 5

EngineInit ==
    /\ overflow_checks \in BOOLEAN
    /\ pc = "engine"
    /\ regs = <<>>
    /\ calibration = NoCalibration
    /\ t_fine = Z(0)
    /\ t_src = [by |-> "none"]
    /\ call = [op |-> "none"]
    /\ ret = [panic |-> FALSE]
    /\ bus = <<>>

\* what the call hands back: o, whether an i32/i64 `+ - *` overflowed; panic,
\* whether the call panicked; value, the value computed (wrapped)
Returned(x) == [o |-> x.o, panic |-> Panics(x), value |-> x.v]

ReturnedPressure(r, var1) ==
    [o |-> r.x.o, panic |-> Panics(r.x), value |-> r.x.v, divided |-> r.divided,
     var1 |-> var1.v]

\* one call per behaviour: the functions keep nothing between calls
EngineFrame ==
    /\ pc' = "returned"
    /\ UNCHANGED <<overflow_checks, regs, calibration, t_fine, t_src, bus>>

CompensateTemperature ==
    /\ pc = "engine"
    /\ \E c \in 1..NumSets, a \in 1..NumRaw :
          /\ call' = [op |-> "compensate_temperature", self |-> TemperatureSets[c],
                      adc_t |-> Raw20[a]]
          /\ ret' = Returned(compensate_temperature(TemperatureSets[c], Lit(Raw20[a])))
    /\ EngineFrame

CompensatePressure ==
    /\ pc = "engine"
    /\ \E c \in 1..NumSets, a \in 1..NumRaw, t \in 1..NumTFines :
          /\ call' = [op |-> "compensate_pressure", self |-> PressureSets[c],
                      adc_p |-> Raw20[a], t_fine |-> TFines[t]]
          /\ ret' = ReturnedPressure(
                        compensate_pressure(PressureSets[c], Lit(Raw20[a]), Lit(TFines[t])),
                        pressure_var1(PressureSets[c], Sub(64, Lit(TFines[t]), Lit(128000))))
    /\ EngineFrame

CompensateHumidity ==
    /\ pc = "engine"
    /\ \E c \in 1..NumSets, a \in 1..NumRaw, t \in 1..NumTFines :
          /\ call' = [op |-> "compensate_humidity", self |-> HumiditySets[c],
                      adc_h |-> Raw16[a], t_fine |-> TFines[t]]
          /\ ret' = Returned(compensate_humidity(HumiditySets[c], Lit(Raw16[a]),
                                                 Lit(TFines[t])))
    /\ EngineFrame

EngineNext == CompensateTemperature \/ CompensatePressure \/ CompensateHumidity

SpecEngine == EngineInit /\ [][EngineNext]_vars

(***************************************************************************)
(* The decoders on their own: each action is one call of a getter of       *)
(* src/src/i2c.rs on a chip whose registers hold the bytes drawn, with     *)
(* every bus transaction succeeding.                                       *)
(***************************************************************************)
Bytes == <<0, 255, 19, 40, 3, 128, 189, 15, 16, 240, 127, 1>>

\* how many entries of Bytes the decoders are run on
NumBytes == 8

DecodeInit ==
    /\ overflow_checks = FALSE
    /\ pc = "decode"
    /\ regs = CalibrationBlock(Chips[1]) @@ DataBlock(Measurements[1])
              @@ ControlBlock(0)
    /\ calibration = NoCalibration
    /\ t_fine = Z(0)
    /\ t_src = [by |-> "none"]
    /\ call = [op |-> "none"]
    /\ ret = [panic |-> FALSE]
    /\ bus = <<>>

Decoded(op, rs, r) ==
    /\ regs' = rs
    /\ call' = [op |-> op]
    /\ ret' = [panic |-> r.d.panicked, value |-> r.value]
    /\ bus' = r.d.log
    /\ pc' = "returned"
    /\ UNCHANGED <<overflow_checks, calibration, t_fine, t_src>>

WithHumidityNibbles(a, s, b) ==
    [regs EXCEPT !.DIG_H4_MSB_REG = a, !.DIG_H4_LSB_REG = s, !.DIG_H5_MSB_REG = b]

GetH4 ==
    pc = "decode" /\ \E a, s, b \in {Bytes[i] : i \in 1..NumBytes} :
        Decoded("get_h4", WithHumidityNibbles(a, s, b),
                get_h4(Dev(WithHumidityNibbles(a, s, b), 0)))

GetH5 ==
    pc = "decode" /\ \E a, s, b \in {Bytes[i] : i \in 1..NumBytes} :
        Decoded("get_h5", WithHumidityNibbles(a, s, b),
                get_h5(Dev(WithHumidityNibbles(a, s, b), 0)))

GetTemperatureRaw ==
    pc = "decode" /\ \E a, b, c \in {Bytes[i] : i \in 1..NumBytes} :
        Decoded("get_temperature_raw",
                DataBlock([t |-> <<a, b, c>>, p |-> <<0, 0, 0>>, h |-> <<0, 0>>]) @@ regs,
                get_temperature_raw(Dev(
                    DataBlock([t |-> <<a, b, c>>, p |-> <<0, 0, 0>>, h |-> <<0, 0>>])
                    @@ regs, 0)))

GetPressureRaw ==
    pc = "decode" /\ \E a, b, c \in {Bytes[i] : i \in 1..NumBytes} :
        Decoded("get_pressure_raw",
                DataBlock([t |-> <<0, 0, 0>>, p |-> <<a, b, c>>, h |-> <<0, 0>>]) @@ regs,
                get_pressure_raw(Dev(
                    DataBlock([t |-> <<0, 0, 0>>, p |-> <<a, b, c>>, h |-> <<0, 0>>])
                    @@ regs, 0)))

GetHumidityRaw ==
    pc = "decode" /\ \E a, b \in {Bytes[i] : i \in 1..NumBytes} :
        Decoded("get_humidity_raw",
                DataBlock([t |-> <<0, 0, 0>>, p |-> <<0, 0, 0>>, h |-> <<a, b>>]) @@ regs,
                get_humidity_raw(Dev(
                    DataBlock([t |-> <<0, 0, 0>>, p |-> <<0, 0, 0>>, h |-> <<a, b>>])
                    @@ regs, 0)))

DecodeNext ==
    \/ GetH4
    \/ GetH5
    \/ GetTemperatureRaw
    \/ GetPressureRaw
    \/ GetHumidityRaw

SpecDecode == DecodeInit /\ [][DecodeNext]_vars

(***************************************************************************)
(* Properties of the compensation engine, checked under SpecEngine.  The   *)
(* formulas of the specification are written here over the exact integers, *)
(* apart from the operators the engine is built from.                      *)
(***************************************************************************)
InS32(x) == ZLe(ZNeg(ZShl(Z(1), 31)), x) /\ ZLt(x, ZShl(Z(1), 31))

\* var1, var2 and their sum over the exact integers, with every intermediate
TemperatureTerms(c, adc_t) ==
    LET a  == ZSub(ZShr(Z(adc_t), 3), ZShl(Z(c.t1), 1))
        ab == ZMul(a, Z(c.t2))
        d  == ZSub(ZShr(Z(adc_t), 4), Z(c.t1))
        dd == ZMul(d, d)
        e  == ZMul(ZShr(dd, 12), Z(c.t3))
    IN  [all |-> {a, ab, d, dd, e, ZAdd(ZShr(ab, 11), ZShr(e, 14))},
         t_fine |-> ZAdd(ZShr(ab, 11), ZShr(e, 14))]

TemperatureInRange(c, adc_t) == \A x \in TemperatureTerms(c, adc_t).all : InS32(x)

\* C1: on every 20-bit sample and coefficient triple for which no 32-bit
\* intermediate overflows, compensate_temperature returns var1 + var2 of the
\* vendor formula (in every build); the reference vector gives 116770.
C1_TemperatureFormula ==
    (pc = "returned" /\ call.op = "compensate_temperature")
        => /\ TemperatureInRange(call.self, call.adc_t)
                => /\ ~ret.panic
                   /\ ret.value = TemperatureTerms(call.self, call.adc_t).t_fine
           /\ (call.self = TemperatureSets[1] /\ call.adc_t = 527312)
                => (~ret.panic /\ ret.value = Z(116770))

C1_Witness ==
    /\ pc = "returned" /\ call.op = "compensate_temperature"
    /\ call.self = [t1 |-> 28485, t2 |-> 26735, t3 |-> 50] /\ call.adc_t = 527312
    /\ TemperatureInRange(call.self, call.adc_t)
    /\ ret.value = Z(116770)

\* the same formula with every intermediate reduced modulo 2^32 into the
\* signed range
TemperatureWrapped(c, adc_t) ==
    LET a  == WrapS(ZSub(ZShr(Z(adc_t), 3), WrapS(ZShl(Z(c.t1), 1), 32)), 32)
        ab == WrapS(ZMul(a, Z(c.t2)), 32)
        d  == WrapS(ZSub(ZShr(Z(adc_t), 4), Z(c.t1)), 32)
        dd == WrapS(ZMul(d, d), 32)
        e  == WrapS(ZMul(ZShr(dd, 12), Z(c.t3)), 32)
    IN  WrapS(ZAdd(ZShr(ab, 11), ZShr(e, 14)), 32)

\* C9 as the specification states it: on every input, overflowing or not,
\* compensate_temperature returns the wrapped value and never aborts.
C9_WrapsOnOverflow ==
    (pc = "returned" /\ call.op = "compensate_temperature")
        => /\ ~ret.panic
           /\ ret.value = TemperatureWrapped(call.self, call.adc_t)

\* the state that refutes it: a build with overflow checks, a product out of
\* the 32-bit range, and the call aborted
C9_Witness ==
    /\ pc = "returned" /\ call.op = "compensate_temperature"
    /\ overflow_checks /\ ~TemperatureInRange(call.self, call.adc_t)
    /\ ret.panic

\* the vendor pressure formula, every intermediate reduced modulo 2^64 into
\* the signed range, the division truncating toward zero
PressureWrapped(c, adc_p, tf) ==
    LET W(x)  == WrapS(x, 64)
        v     == W(ZSub(Z(tf), Z(128000)))
        vv    == W(ZMul(v, v))
        var2a == W(ZMul(vv, Z(c.p6)))
        var2b == W(ZAdd(var2a, W(ZShl(W(ZMul(v, Z(c.p5))), 17))))
        var2  == W(ZAdd(var2b, W(ZShl(Z(c.p4), 35))))
        var1a == W(ZAdd(ZShr(W(ZMul(vv, Z(c.p3))), 8), W(ZShl(W(ZMul(v, Z(c.p2))), 12))))
        var1  == ZShr(W(ZMul(W(ZAdd(ZShl(Z(1), 47), var1a)), Z(c.p1))), 33)
        p0    == W(ZSub(Z(1048576), Z(adc_p)))
        p     == W(ZDivT(W(ZMul(W(ZSub(W(ZShl(p0, 31)), var2)), Z(3125))), var1))
        q     == ZShr(W(ZMul(W(ZMul(Z(c.p9), ZShr(p, 13))), ZShr(p, 13))), 25)
        r     == ZShr(W(ZMul(Z(c.p8), p)), 19)
        out   == W(ZAdd(ZShr(W(ZAdd(W(ZAdd(p, q)), r)), 8), W(ZShl(Z(c.p7), 4))))
    IN  [steps |-> <<v, vv, var2a, var2b, var2, var1a, var1>>, var1 |-> var1,
         value |-> IF var1 = Z(0) THEN Z(0)
                   ELSE [steps |-> <<p0, p, q, r, out>>, u32 |-> ZMod2(out, 32)].u32]

\* C2: whenever compensate_pressure returns, it returns the value of the vendor
\* 64-bit formula as an unsigned 32-bit number; the reference vector returns
\* 26036801 in every build.
C2_PressureFormula ==
    (pc = "returned" /\ call.op = "compensate_pressure")
        => /\ ~ret.panic
                => ret.value = PressureWrapped(call.self, call.adc_p, call.t_fine).value
           /\ (call.self = PressureSets[1] /\ call.adc_p = 337136 /\ call.t_fine = 120035)
                => (~ret.panic /\ ret.value = Z(26036801))

C2_Witness ==
    /\ pc = "returned" /\ call.op = "compensate_pressure"
    /\ call.self = [p1 |-> 36738, p2 |-> -10635, p3 |-> 3024, p4 |-> 6980, p5 |-> -4,
                    p6 |-> -7, p7 |-> 9900, p8 |-> -10230, p9 |-> 4285]
    /\ call.adc_p = 337136 /\ call.t_fine = 120035
    /\ ret.divided /\ ~ret.panic /\ ret.value = Z(26036801)

\* the vendor humidity formula, every intermediate reduced modulo 2^32 into the
\* signed range: running is the value before the clamp
HumidityWrapped(c, adc_h, tf) ==
    LET W(x)  == WrapS(x, 32)
        v     == W(ZSub(Z(tf), Z(76800)))
        left  == ZShr(W(ZAdd(W(ZSub(W(ZSub(W(ZShl(Z(adc_h), 14)), W(ZShl(Z(c.h4), 20)))),
                                    W(ZMul(Z(c.h5), v)))), Z(16384))), 15)
        a     == ZShr(W(ZMul(v, Z(c.h6))), 10)
        b     == W(ZAdd(ZShr(W(ZMul(v, Z(c.h3))), 11), Z(32768)))
        right == ZShr(W(ZAdd(W(ZMul(W(ZAdd(ZShr(W(ZMul(a, b)), 10), Z(2097152))),
                                    Z(c.h2))), Z(8192))), 14)
        x     == W(ZMul(left, right))
        y     == W(ZSub(x, ZShr(W(ZMul(ZShr(W(ZMul(ZShr(x, 15), ZShr(x, 15))), 7),
                                       Z(c.h1))), 4)))
        z     == IF ZLt(y, Z(0)) THEN Z(0)
                 ELSE IF ZLt(Z(419430400), y) THEN Z(419430400) ELSE y
    IN  [running |-> y, value |-> ZShr(z, 12)]

\* C3: whenever compensate_humidity returns, it returns the clamped value of
\* the vendor 32-bit formula shifted right by 12; the reference vector returns
\* 57350 in every build.
C3_HumidityFormula ==
    (pc = "returned" /\ call.op = "compensate_humidity")
        => /\ ~ret.panic
                => ret.value = HumidityWrapped(call.self, call.adc_h, call.t_fine).value
           /\ (call.self = HumiditySets[1] /\ call.adc_h = 30049 /\ call.t_fine = 116770)
                => (~ret.panic /\ ret.value = Z(57350))

C3_Witness ==
    /\ pc = "returned" /\ call.op = "compensate_humidity"
    /\ call.self = [h1 |-> 75, h2 |-> 365, h3 |-> 0, h4 |-> 312, h5 |-> 50, h6 |-> 30]
    /\ call.adc_h = 30049 /\ call.t_fine = 116770
    /\ ~ret.panic /\ ret.value = Z(57350)

\* C4: whatever the coefficients, the sample and t_fine, a value returned by
\* compensate_humidity lies in [0, 102400].
C4_HumidityClamped ==
    (pc = "returned" /\ call.op = "compensate_humidity" /\ ~ret.panic)
        => (ZLe(Z(0), ret.value) /\ ZLe(ret.value, Z(102400)))

\* the running value is above 419430400 and the call returns 102400
C4_Witness ==
    /\ pc = "returned" /\ call.op = "compensate_humidity" /\ ~ret.panic
    /\ ZLt(Z(419430400), HumidityWrapped(call.self, call.adc_h, call.t_fine).running)
    /\ ret.value = Z(102400)

\* C5: when var1 of line 99 is 0 the division of line 105 is not executed and
\* a call that returns returns 0; the division is executed only with var1 # 0.
C5_ZeroVar1 ==
    (pc = "returned" /\ call.op = "compensate_pressure")
        => /\ ~ret.panic
                => ret.var1 = PressureWrapped(call.self, call.adc_p, call.t_fine).var1
           /\ ret.var1 = Z(0) => (~ret.divided /\ (~ret.panic => ret.value = Z(0)))
           /\ ret.divided => ret.var1 # Z(0)

C5_Witness ==
    /\ pc = "returned" /\ call.op = "compensate_pressure"
    /\ call.self.p1 = 0 /\ call.self.p2 # 0 /\ call.adc_p # 0
    /\ ret.var1 = Z(0) /\ ~ret.panic /\ ~ret.divided /\ ret.value = Z(0)

(***************************************************************************)
(* Properties of the decoders, checked under SpecDecode.  After a call,    *)
(* regs holds the bytes the chip was given and bus the transactions issued.*)
(***************************************************************************)
Read(register) == [op |-> "write_read", reg |-> register]

\* C6: get_h4 returns (byte_A << 4) | (byte_shared & 0x0F) and get_h5 returns
\* (byte_B << 4) | ((byte_shared >> 4) & 0x0F), each reading its own MSB
\* register and then DIG_H4_LSB; bytes 19, 40, 3 decode to 312 and 50.
C6_SharedNibble ==
    /\ (pc = "returned" /\ call.op = "get_h4")
          => /\ ret = [panic |-> FALSE,
                       value |-> regs.DIG_H4_MSB_REG * 16 + (regs.DIG_H4_LSB_REG % 16)]
             /\ bus = <<Read("DIG_H4_MSB_REG"), Read("DIG_H4_LSB_REG")>>
             /\ (regs.DIG_H4_MSB_REG = 19 /\ regs.DIG_H4_LSB_REG = 40) => ret.value = 312
    /\ (pc = "returned" /\ call.op = "get_h5")
          => /\ ret = [panic |-> FALSE,
                       value |-> regs.DIG_H5_MSB_REG * 16 + (regs.DIG_H4_LSB_REG \div 16)]
             /\ bus = <<Read("DIG_H5_MSB_REG"), Read("DIG_H4_LSB_REG")>>
             /\ (regs.DIG_H5_MSB_REG = 3 /\ regs.DIG_H4_LSB_REG = 40) => ret.value = 50

C6_Witness ==
    /\ pc = "returned" /\ call.op = "get_h5"
    /\ regs.DIG_H4_MSB_REG = 19 /\ regs.DIG_H4_LSB_REG = 40 /\ regs.DIG_H5_MSB_REG = 3
    /\ ret.value = 50

\* C10: get_temperature_raw and get_pressure_raw return
\* (MSB<<12) | (LSB<<4) | ((XLSB>>4) & 0x0F) of their three registers, within
\* [0, 2^20 - 1]; get_humidity_raw returns (MSB<<8) | LSB of its two, within
\* [0, 2^16 - 1].
C10_RawSamples ==
    /\ (pc = "returned" /\ call.op = "get_temperature_raw")
          => /\ ret = [panic |-> FALSE,
                       value |-> regs.TEMPERATURE_MSB_REG * 4096
                                 + regs.TEMPERATURE_LSB_REG * 16
                                 + (regs.TEMPERATURE_XLSB_REG \div 16)]
             /\ ret.value \in 0..(2^20 - 1)
             /\ bus = <<Read("TEMPERATURE_MSB_REG"), Read("TEMPERATURE_LSB_REG"),
                        Read("TEMPERATURE_XLSB_REG")>>
    /\ (pc = "returned" /\ call.op = "get_pressure_raw")
          => /\ ret = [panic |-> FALSE,
                       value |-> regs.PRESSURE_MSB_REG * 4096 + regs.PRESSURE_LSB_REG * 16
                                 + (regs.PRESSURE_XLSB_REG \div 16)]
             /\ ret.value \in 0..(2^20 - 1)
             /\ bus = <<Read("PRESSURE_MSB_REG"), Read("PRESSURE_LSB_REG"),
                        Read("PRESSURE_XLSB_REG")>>
    /\ (pc = "returned" /\ call.op = "get_humidity_raw")
          => /\ ret = [panic |-> FALSE,
                       value |-> regs.HUMIDITY_MSB_REG * 256 + regs.HUMIDITY_LSB_REG]
             /\ ret.value \in 0..(2^16 - 1)
             /\ bus = <<Read("HUMIDITY_MSB_REG"), Read("HUMIDITY_LSB_REG")>>

\* the largest sample, with the low nibble of XLSB set and left out
C10_Witness ==
    /\ pc = "returned" /\ call.op = "get_temperature_raw"
    /\ regs.TEMPERATURE_MSB_REG = 255 /\ regs.TEMPERATURE_LSB_REG = 255
    /\ regs.TEMPERATURE_XLSB_REG = 255
    /\ ret.value = 2^20 - 1

(***************************************************************************)
(* Properties of the facade, checked under Spec.                           *)
(***************************************************************************)
\* C7 as the specification states it: when a register read of the calibration
\* decode fails, new() hands an I/O failure back to its caller and no
\* Calibration is produced.
C7_BuildReportsFailure ==
    (call.op = "new" /\ call.fail # 0)
        => (pc # "panicked" /\ ~ret.panic /\ calibration = NoCalibration)

\* the state that refutes it: a read failed and the program panicked in unwrap()
C7_Witness ==
    /\ call.op = "new" /\ call.fail = 1
    /\ bus = <<Read("DIG_T1_LSB_REG")>>
    /\ pc = "panicked" /\ ret.panic /\ calibration = NoCalibration

Consumers == {"get_pressure_pascal", "get_humidity_relative"}

\* the t_fine the sensor holds by the calls made before this one
HeldTFine ==
    IF call.t_src.by = "compensate_temperature" THEN call.t_src.value ELSE Z(0)

\* C8 as the specification states it: the t_fine a pressure or humidity
\* compensation consumes was produced by an earlier temperature compensation.
C8_TFineProducedBefore ==
    (call.op \in Consumers /\ call.consumed)
        => (call.t_src.by = "compensate_temperature" /\ call.used = call.t_src.value)

\* C8, amended: the t_fine consumed is the one stored by the latest earlier
\* get_temperature_celsius, or the 0 new() stores when there was none; the
\* value returned is the compensation of the sample read with that t_fine.
C8_TFineLatestOrInitial ==
    (call.op \in Consumers /\ call.consumed)
        => /\ call.t_src.by \in {"compensate_temperature", "new"}
           /\ call.used = HeldTFine
           /\ t_fine = HeldTFine
           /\ (call.op = "get_pressure_pascal" /\ ~ret.panic)
                => ret.value =
                     compensate_pressure(calibration.pressure, Lit(call.adc),
                                         Val(HeldTFine)).x.v
           /\ (call.op = "get_humidity_relative" /\ ~ret.panic)
                => ret.value =
                     compensate_humidity(calibration.humidity, Lit(call.adc),
                                         Val(HeldTFine)).v

\* a humidity compensated with the t_fine of an earlier temperature call
C8_Witness ==
    /\ call.op = "get_humidity_relative" /\ call.consumed /\ ~ret.panic
    /\ call.t_src.by = "compensate_temperature"
    /\ call.used = Z(116770)

\* the methods whose transactions are all register reads of one operation
ReadOperations ==
    {"new", "get_temperature_celsius", "get_pressure_pascal", "get_humidity_relative"}

\* C11 as the specification states it: when a transaction of a raw-sample read
\* or of the calibration reads fails, it is not retried, no transaction follows
\* it, and the operation ends with an I/O failure handed to its caller.
C11_FailureSurfaced ==
    (call.op \in ReadOperations /\ call.fail # 0)
        => (Len(bus) = call.fail /\ ~ret.panic /\ pc # "panicked")

\* the state that refutes it: the second read of get_temperature_raw failed,
\* nothing was issued after it, and the program panicked in unwrap()
C11_Witness ==
    /\ call.op = "get_temperature_celsius" /\ call.fail = 2
    /\ bus = <<Read("TEMPERATURE_MSB_REG"), Read("TEMPERATURE_LSB_REG")>>
    /\ pc = "panicked" /\ ret.panic

\* the transactions the specification lists for new, in its order
CalibrationReads ==
    <<Read("DIG_T1_LSB_REG"), Read("DIG_T1_MSB_REG"),
      Read("DIG_T2_LSB_REG"), Read("DIG_T2_MSB_REG"),
      Read("DIG_T3_LSB_REG"), Read("DIG_T3_MSB_REG"),
      Read("DIG_P1_LSB_REG"), Read("DIG_P1_MSB_REG"),
      Read("DIG_P2_LSB_REG"), Read("DIG_P2_MSB_REG"),
      Read("DIG_P3_LSB_REG"), Read("DIG_P3_MSB_REG"),
      Read("DIG_P4_LSB_REG"), Read("DIG_P4_MSB_REG"),
      Read("DIG_P5_LSB_REG"), Read("DIG_P5_MSB_REG"),
      Read("DIG_P6_LSB_REG"), Read("DIG_P6_MSB_REG"),
      Read("DIG_P7_LSB_REG"), Read("DIG_P7_MSB_REG"),
      Read("DIG_P8_LSB_REG"), Read("DIG_P8_MSB_REG"),
      Read("DIG_P9_LSB_REG"), Read("DIG_P9_MSB_REG"),
      Read("DIG_H1_REG"),
      Read("DIG_H2_LSB_REG"), Read("DIG_H2_MSB_REG"),
      Read("DIG_H3_REG"),
      Read("DIG_H4_MSB_REG"), Read("DIG_H4_LSB_REG"),
      Read("DIG_H5_MSB_REG"), Read("DIG_H4_LSB_REG"),
      Read("DIG_H6_REG")>>

MeasurementRegisters ==
    {"TEMPERATURE_MSB_REG", "TEMPERATURE_LSB_REG", "TEMPERATURE_XLSB_REG",
     "PRESSURE_MSB_REG", "PRESSURE_LSB_REG", "PRESSURE_XLSB_REG",
     "HUMIDITY_MSB_REG", "HUMIDITY_LSB_REG"}

\* C14: when no transaction fails, new issues exactly the 33 single-register
\* reads T1..T3, P1..P9 (LSB then MSB), H1, H2 LSB, H2 MSB, H3, H4 MSB, H4 LSB,
\* H5 MSB, H4 LSB, H6 in this order and no write (DIG_H4_LSB twice); no call
\* other than a get_* measurement call touches a measurement register.
C14_CalibrationReadOrder ==
    /\ (call.op = "new" /\ call.fail = 0)
          => (bus = CalibrationReads /\ Len(bus) = 33)
    /\ (call.op \notin {"get_temperature_celsius", "get_pressure_pascal",
                        "get_humidity_relative"})
          => \A i \in 1..Len(bus) : bus[i].reg \notin MeasurementRegisters

\* new has returned a sensor after its 33 reads, DIG_H4_LSB the 30th and 32nd
C14_Witness ==
    /\ call = [op |-> "new", fail |-> 0] /\ pc = "ready" /\ calibration.built
    /\ Len(bus) = 33
    /\ {i \in 1..33 : bus[i] = Read("DIG_H4_LSB_REG")} = {30, 32}

\* the temperature sample the data registers hold
TemperatureSample ==
    raw20(<<regs["TEMPERATURE_MSB_REG"], regs["TEMPERATURE_LSB_REG"],
            regs["TEMPERATURE_XLSB_REG"]>>)

\* one step of a sensor that new has returned
C15_Step ==
    /\ calibration.built => calibration' = calibration
    /\ t_src.by = "new" => t_fine = Z(0)
    /\ t_fine' # t_fine =>
          /\ calibration.built /\ call'.op = "get_temperature_celsius"
          /\ t_fine' = compensate_temperature(calibration.temperature,
                                              Lit(TemperatureSample)).v
    /\ (calibration.built /\ call'.op = "get_temperature_celsius" /\ regs' = regs
        /\ pc' = "ready")
          => t_fine' = compensate_temperature(calibration.temperature,
                                              Lit(TemperatureSample)).v
    /\ (calibration.built /\ call'.op \in {"get_pressure_pascal", "get_humidity_relative",
                                           "start", "stop", "reset", "is_measuring",
                                           "is_updating"})
          => t_fine' = t_fine

\* C15: once new has returned, the calibration coefficients never change; the
\* stored t_fine is 0 until the first get_temperature_celsius, changes only in
\* get_temperature_celsius, which sets it to compensate_temperature of the raw
\* sample it has just read, and is left as it is by get_pressure_pascal,
\* get_humidity_relative, start, stop, reset, is_measuring and is_updating.
C15_TFineOwnership == [][C15_Step]_vars

\* a t_fine stored by get_temperature_celsius has survived a later getter
C15_Witness ==
    /\ call.op = "get_humidity_relative" /\ pc = "ready"
    /\ t_src.by = "compensate_temperature" /\ t_fine = t_src.value /\ t_fine # Z(0)

\* C16: get_h4 and get_h5 return a value in [0, 4095], the 12-bit field
\* zero-extended: with the MSB register at 0x80 or above the value is in
\* [2048, 4095], never negative.
C16_TwelveBitUnsigned ==
    /\ (pc = "returned" /\ call.op = "get_h4")
          => /\ ret.value \in 0..4095
             /\ regs.DIG_H4_MSB_REG >= 128 => ret.value \in 2048..4095
    /\ (pc = "returned" /\ call.op = "get_h5")
          => /\ ret.value \in 0..4095
             /\ regs.DIG_H5_MSB_REG >= 128 => ret.value \in 2048..4095

\* get_h4 has decoded the largest field: MSB 0xFF, low nibble 0xF
C16_Witness ==
    /\ pc = "returned" /\ call.op = "get_h4" /\ ~ret.panic
    /\ regs.DIG_H4_MSB_REG = 255 /\ regs.DIG_H4_LSB_REG = 15
    /\ ret.value = 4095

(***************************************************************************)
(* The enumerated options on their own: each action is one conversion of   *)
(* src/src/i2c.rs, from any u8 or from any variant, followed by the        *)
(* conversion back of what it returned.                                    *)
(***************************************************************************)
Variants ==
    [Mode         |-> {"Sleep", "Forced", "Normal"},
     Oversampling |-> {"Skipped", "Ox1", "Ox2", "Ox4", "Ox8", "Ox16"},
     StandyTime   |-> {"Ms0_5", "Ms62_5", "Ms125", "Ms250", "Ms500", "Ms1000", "Ms10",
                       "Ms20"},
     Filter       |-> {"Off", "C2", "C4", "C8", "C16"}]

from_u8(enum, v) ==
    CASE enum = "Mode" -> Mode_from_u8(v)
      [] enum = "Oversampling" -> Oversampling_from_u8(v)
      [] enum = "StandyTime" -> StandyTime_from_u8(v)
      [] enum = "Filter" -> Filter_from_u8(v)

u8_from(enum, x) ==
    CASE enum = "Mode" -> u8_from_Mode(x)
      [] enum = "Oversampling" -> u8_from_Oversampling(x)
      [] enum = "StandyTime" -> u8_from_StandyTime(x)
      [] enum = "Filter" -> u8_from_Filter(x)

EnumInit ==
    /\ overflow_checks = FALSE
    /\ pc = "enum"
    /\ regs = <<>>
    /\ calibration = NoCalibration
    /\ t_fine = Z(0)
    /\ t_src = [by |-> "none"]
    /\ call = [op |-> "none"]
    /\ ret = [panic |-> FALSE]
    /\ bus = <<>>

\* T::from(v) for any u8 v, then u8::from of the variant when there is one
FromU8 ==
    /\ pc = "enum"
    /\ \E enum \in DOMAIN Variants, v \in 0..255 :
          /\ call' = [op |-> "from_u8", enum |-> enum, byte |-> v]
          /\ ret' = IF from_u8(enum, v).panic THEN [panic |-> TRUE]
                    ELSE [panic |-> FALSE, variant |-> from_u8(enum, v).variant,
                          back |-> u8_from(enum, from_u8(enum, v).variant)]
    /\ pc' = "returned"
    /\ UNCHANGED <<overflow_checks, regs, calibration, t_fine, t_src, bus>>

\* u8::from(x) for any variant x, then T::from of the code
U8From ==
    /\ pc = "enum"
    /\ \E enum \in DOMAIN Variants :
          \E x \in Variants[enum] :
              /\ call' = [op |-> "u8_from", enum |-> enum, variant |-> x]
              /\ ret' = [panic |-> FALSE, value |-> u8_from(enum, x),
                         back |-> from_u8(enum, u8_from(enum, x))]
    /\ pc' = "returned"
    /\ UNCHANGED <<overflow_checks, regs, calibration, t_fine, t_src, bus>>

EnumNext == FromU8 \/ U8From

SpecEnum == EnumInit /\ [][EnumNext]_vars

(***************************************************************************)
(* The configuration on its own: a setter of src/src/i2c.rs called with    *)
(* any variant on a chip whose control registers hold any byte, or start   *)
(* and then stop of src/src/lib.rs; no transaction fails.  The call keeps  *)
(* the registers as they were before it.                                   *)
(***************************************************************************)
ConfigRegs(a, b, c) ==
    [CTRL_MEAS_REG |-> a, CONFIG_REG |-> b, CTRL_HUMIDITY_REG |-> c]
    @@ ControlBlock(0) @@ regs

ConfigInit ==
    /\ overflow_checks = FALSE
    /\ pc = "config"
    /\ regs = CalibrationBlock(Chips[1]) @@ DataBlock(Measurements[1])
              @@ ControlBlock(0)
    /\ calibration = NoCalibration
    /\ t_fine = Z(0)
    /\ t_src = [by |-> "none"]
    /\ call = [op |-> "none"]
    /\ ret = [panic |-> FALSE]
    /\ bus = <<>>

Configured(op, arg, rs, d, next) ==
    /\ call' = [op |-> op, arg |-> arg, before |-> rs]
    /\ regs' = d.regs
    /\ bus' = d.log
    /\ ret' = [panic |-> d.panicked]
    /\ pc' = next
    /\ UNCHANGED <<overflow_checks, calibration, t_fine, t_src>>

SetMode ==
    pc = "config" /\ \E v \in 0..255, mode \in Variants.Mode :
        Configured("set_mode", mode, ConfigRegs(v, v, v),
                   set_mode(Dev(ConfigRegs(v, v, v), 0), mode), "returned")

SetTemperatureOversample ==
    pc = "config" /\ \E v \in 0..255, rate \in Variants.Oversampling :
        Configured("set_temperature_oversample", rate, ConfigRegs(v, v, v),
                   set_temperature_oversample(Dev(ConfigRegs(v, v, v), 0), rate),
                   "returned")

SetPressureOversample ==
    pc = "config" /\ \E v \in 0..255, rate \in Variants.Oversampling :
        Configured("set_pressure_oversample", rate, ConfigRegs(v, v, v),
                   set_pressure_oversample(Dev(ConfigRegs(v, v, v), 0), rate),
                   "returned")

SetHumidityOversample ==
    pc = "config" /\ \E v \in 0..255, rate \in Variants.Oversampling :
        Configured("set_humidity_oversample", rate, ConfigRegs(v, v, v),
                   set_humidity_oversample(Dev(ConfigRegs(v, v, v), 0), rate),
                   "returned")

SetStandbyTime ==
    pc = "config" /\ \E v \in 0..255, standby \in Variants.StandyTime :
        Configured("set_standby_time", standby, ConfigRegs(v, v, v),
                   set_standby_time(Dev(ConfigRegs(v, v, v), 0), standby), "returned")

SetFilter ==
    pc = "config" /\ \E v \in 0..255, filter \in Variants.Filter :
        Configured("set_filter", filter, ConfigRegs(v, v, v),
                   set_filter(Dev(ConfigRegs(v, v, v), 0), filter), "returned")

\* start on a chip whose three control registers hold any of ControlBytes
StartConfigured ==
    pc = "config" /\ \E a, b, c \in {ControlBytes[i] : i \in 1..Len(ControlBytes)} :
        Configured("start", "Normal", ConfigRegs(a, b, c),
                   start(Dev(ConfigRegs(a, b, c), 0)), "started")

\* the stop that follows start
StopStarted ==
    pc = "started" /\ Configured("stop", "Sleep", regs, stop(Dev(regs, 0)), "returned")

ConfigNext ==
    \/ SetMode
    \/ SetTemperatureOversample
    \/ SetPressureOversample
    \/ SetHumidityOversample
    \/ SetStandbyTime
    \/ SetFilter
    \/ StartConfigured
    \/ StopStarted

SpecConfig == ConfigInit /\ [][ConfigNext]_vars

(***************************************************************************)
(* Properties of the configuration, checked under SpecConfig.              *)
(***************************************************************************)
\* the bit field of each setter: its register, its lowest bit and its width
Fields ==
    [set_mode |-> [enum |-> "Mode", reg |-> "CTRL_MEAS_REG", lo |-> 0, width |-> 2],
     set_temperature_oversample |->
         [enum |-> "Oversampling", reg |-> "CTRL_MEAS_REG", lo |-> 5, width |-> 3],
     set_pressure_oversample |->
         [enum |-> "Oversampling", reg |-> "CTRL_MEAS_REG", lo |-> 2, width |-> 3],
     set_humidity_oversample |->
         [enum |-> "Oversampling", reg |-> "CTRL_HUMIDITY_REG", lo |-> 0, width |-> 3],
     set_standby_time |->
         [enum |-> "StandyTime", reg |-> "CONFIG_REG", lo |-> 5, width |-> 3],
     set_filter |-> [enum |-> "Filter", reg |-> "CONFIG_REG", lo |-> 2, width |-> 3]]

\* byte old with the field f holding code
WithField(old, f, code) ==
    old - ((old \div 2^f.lo) % 2^f.width) * 2^f.lo + code * 2^f.lo

\* the registers other than those of rs are as they were before the call
OthersKept(rs) == \A r \in DOMAIN regs \ rs : regs[r] = call.before[r]

\* C17: with every transaction succeeding, each setter does one read and then
\* one write of a single register and changes only its own bit field; after
\* start, from any register contents, CTRL_MEAS is 0x27, CONFIG has bits 7:2
\* cleared and bits 1:0 unchanged, CTRL_HUMIDITY has bits 2:0 = 1 and bits 7:3
\* unchanged; a following stop clears only bits 1:0 of CTRL_MEAS.
C17_Configuration ==
    /\ (pc = "returned" /\ call.op \in DOMAIN Fields)
          => /\ ~ret.panic
             /\ bus = <<Read(Fields[call.op].reg),
                        [op |-> "write", reg |-> Fields[call.op].reg,
                         byte |-> regs[Fields[call.op].reg]]>>
             /\ regs[Fields[call.op].reg]
                   = WithField(call.before[Fields[call.op].reg], Fields[call.op],
                               u8_from(Fields[call.op].enum, call.arg))
             /\ OthersKept({Fields[call.op].reg})
    /\ call.op = "start"
          => /\ ~ret.panic
             /\ regs.CTRL_MEAS_REG = 39
             /\ regs.CONFIG_REG = call.before.CONFIG_REG % 4
             /\ regs.CTRL_HUMIDITY_REG = (call.before.CTRL_HUMIDITY_REG \div 8) * 8 + 1
             /\ OthersKept({"CTRL_MEAS_REG", "CONFIG_REG", "CTRL_HUMIDITY_REG"})
    /\ call.op = "stop"
          => /\ ~ret.panic
             /\ call.before.CTRL_MEAS_REG = 39
             /\ regs.CTRL_MEAS_REG = 36
             /\ OthersKept({"CTRL_MEAS_REG"})

\* stop has followed a start from control registers holding 0xFF, 0xA5, 0x5A
C17_Witness ==
    /\ pc = "returned" /\ call.op = "stop" /\ ~ret.panic
    /\ regs.CTRL_MEAS_REG = 36 /\ regs.CONFIG_REG = 1 /\ regs.CTRL_HUMIDITY_REG = 89

(***************************************************************************)
(* Properties of the enumerated options, checked under SpecEnum.           *)
(***************************************************************************)
\* the codes the specification recognizes
Recognized ==
    [Mode |-> {0, 1, 3}, Oversampling |-> 0..5, StandyTime |-> 0..7, Filter |-> 0..4]

\* C12 as the specification states it: decoding a u8 outside the recognized
\* codes of its option yields an explicit error, neither a panic nor a variant.
C12_ExplicitError ==
    (pc = "returned" /\ call.op = "from_u8" /\ call.byte \notin Recognized[call.enum])
        => (~ret.panic /\ "variant" \notin DOMAIN ret)

\* a state that refutes it: Mode::from(4) panics
C12_Witness ==
    /\ pc = "returned" /\ call = [op |-> "from_u8", enum |-> "Mode", byte |-> 4]
    /\ ret.panic

\* C13 as the specification states it: from_u8(to_u8(x)) = x for every variant,
\* and to_u8(from_u8(v)) = v for every u8 that from_u8 accepts.
C13_Bijection ==
    /\ (pc = "returned" /\ call.op = "u8_from")
          => ret.back = [panic |-> FALSE, variant |-> call.variant]
    /\ (pc = "returned" /\ call.op = "from_u8" /\ ~ret.panic)
          => ret.back = call.byte

\* a state that refutes it: Mode::from(2) is Forced, whose code is 1
C13_Witness ==
    /\ pc = "returned" /\ call = [op |-> "from_u8", enum |-> "Mode", byte |-> 2]
    /\ ret = [panic |-> FALSE, variant |-> "Forced", back |-> 1]

====
